---- MODULE Spec2Model ----
(***************************************************************************)
(* Job-status polling and progress synchronisation of the lip-sync client. *)
(*                                                                         *)
(* Modelled sources:                                                       *)
(*   frontend/src/pages/ProjectDetail.tsx   detail view, pollingInterval   *)
(*                                          kept in useState  ("useState") *)
(*   unnamed/part_001                       detail view, pollingInterval   *)
(*                                          kept in useRef    ("useRef")   *)
(*   frontend/src/pages/Dashboard.tsx       dashboard (part_000 is the     *)
(*                                          same logic)                    *)
(*   frontend/src/store/slices/authSlice.ts projectSlice reducers          *)
(*                                                                         *)
(* Strings that the code parses are sequences of one-character strings;    *)
(* fixed strings that are only stored and displayed are one-token          *)
(* sequences.                                                              *)
(***************************************************************************)
EXTENDS Integers, Sequences, FiniteSets, Bags, TLC

\* ------------------------------------------------------------------ bounds
NumJobs == 2
MaxTimers == 2
MaxInFlight == 2

Jobs == 1..NumJobs

Null == "null"
None == [kind |-> "none"]

Statuses == {"pending", "processing", "completed", "failed"}

IsTerminal(s) == s = "completed" \/ s = "failed"

\* --------------------------------------------------------------- messages
NoMsg == << >>
MsgInit == <<"P","r","o","g","r","e","s","s"," ","1","0","%",":"," ","I","n","i","t","i","a","l","i","z","i","n","g">>
MsgPlain == <<"L","o","a","d","i","n","g">>
MsgBoom == <<"b","o","o","m">>

StartingStep == <<"Starting Wav2Lip processing...">>
CompletedStep == <<"Processing completed successfully!">>
FailedStep == <<"Processing failed">>
FetchError == <<"Failed to fetch project">>
StartError == <<"Failed to start processing">>
DeleteError == <<"Failed to delete project">>

\* JavaScript truthiness of an optional string: undefined and '' are falsy.
Truthy(msg) == msg # NoMsg

\* ------------------------------------------------------- progress grammar
Digits == {"0","1","2","3","4","5","6","7","8","9"}

DigitVal(c) ==
  CASE c = "0" -> 0 [] c = "1" -> 1 [] c = "2" -> 2 [] c = "3" -> 3
    [] c = "4" -> 4 [] c = "5" -> 5 [] c = "6" -> 6 [] c = "7" -> 7
    [] c = "8" -> 8 [] c = "9" -> 9

LineTerminators == {"\n", "\r"}

ProgressLit == <<"P","r","o","g","r","e","s","s"," ">>
PercentLit == <<"%",":"," ">>

StartsWith(s, i, lit) ==
  /\ i + Len(lit) - 1 <= Len(s)
  /\ \A k \in 1..Len(lit) : s[i + k - 1] = lit[k]

\* last index of the run of digits that starts at i (i-1 when there is none)
DigitsEnd(s, i) ==
  LET ends == {j \in (i-1)..Len(s) : \A k \in i..j : s[k] \in Digits}
  IN  CHOOSE j \in ends : \A k \in ends : k <= j

\* last index of the run of non-line-terminator characters that starts at i
LineEnd(s, i) ==
  LET ends == {j \in (i-1)..Len(s) : \A k \in i..j : s[k] \notin LineTerminators}
  IN  CHOOSE j \in ends : \A k \in ends : k <= j

\* /Progress (\d+)%: (.+)/ matches with "Progress " at index i
MatchAt(s, i) ==
  /\ StartsWith(s, i, ProgressLit)
  /\ LET d == i + Len(ProgressLit)
         e == DigitsEnd(s, d)
     IN  /\ e >= d
         /\ StartsWith(s, e + 1, PercentLit)
         /\ LineEnd(s, e + 1 + Len(PercentLit)) >= e + 1 + Len(PercentLit)

RECURSIVE parseInt(_)
parseInt(ds) ==
  IF ds = << >> THEN 0
  ELSE 10 * parseInt(SubSeq(ds, 1, Len(ds) - 1)) + DigitVal(ds[Len(ds)])

\* String.prototype.match with the progress regex: the leftmost match, as
\* [matched, g1, g2]; matched = FALSE stands for null.
ProgressMatch(s) ==
  LET starts == {i \in 1..Len(s) : MatchAt(s, i)}
  IN  IF starts = {} THEN [matched |-> FALSE, g1 |-> << >>, g2 |-> << >>]
      ELSE LET i == CHOOSE k \in starts : \A m \in starts : k <= m
               d == i + Len(ProgressLit)
               e == DigitsEnd(s, d)
               t == e + 1 + Len(PercentLit)
           IN  [matched |-> TRUE,
                g1 |-> SubSeq(s, d, e),
                g2 |-> SubSeq(s, t, LineEnd(s, t))]

\* ------------------------------------------------------------- remote job
\* What GET /api/v1/projects/{id} can return for a job that exists.
Payloads ==
  { [status |-> "pending",    status_message |-> NoMsg,    error_message |-> NoMsg],
    [status |-> "processing", status_message |-> MsgInit,  error_message |-> MsgInit],
    [status |-> "completed",  status_message |-> NoMsg,    error_message |-> NoMsg],
    [status |-> "failed",     status_message |-> MsgBoom,  error_message |-> MsgBoom] }

Gone == [status |-> "gone", status_message |-> NoMsg, error_message |-> NoMsg]

AsProject(j, p) ==
  [id |-> j, status |-> p.status, status_message |-> p.status_message,
   error_message |-> p.error_message]

NoProject == [id |-> 0, status |-> Null, status_message |-> NoMsg, error_message |-> NoMsg]

\* ------------------------------------------------------ projectSlice store
RECURSIVE SelectSeqBy(_, _)
SelectSeqBy(ps, keep) ==
  IF ps = << >> THEN << >>
  ELSE IF Head(ps).id \in keep THEN <<Head(ps)>> \o SelectSeqBy(Tail(ps), keep)
       ELSE SelectSeqBy(Tail(ps), keep)

Ids(ps) == {ps[k].id : k \in 1..Len(ps)}

\* state.projects.find(p => p.id === j): the first entry with that id
FindProject(ps, j) ==
  IF j \in Ids(ps)
  THEN ps[CHOOSE k \in 1..Len(ps) : ps[k].id = j /\ \A m \in 1..(k-1) : ps[m].id # j]
  ELSE NoProject

fetchProjectsSuccess(st, payload) == [st EXCEPT !.projects = payload]

setCurrentProject(st, payload) == [st EXCEPT !.currentProject = payload]

\* a deleteProject that filters the list and leaves currentProject alone
deleteProjectListOnly(st, j) ==
  [projects |-> SelectSeqBy(st.projects, Ids(st.projects) \ {j}),
   currentProject |-> st.currentProject]

deleteProject(st, j) ==
  [projects |-> SelectSeqBy(st.projects, Ids(st.projects) \ {j}),
   currentProject |-> IF st.currentProject.id = j THEN NoProject ELSE st.currentProject]


\* ------------------------------------------------------------------ state
VARIABLES
  impl,       \* which detail view is built: "useState" (ProjectDetail.tsx) or "useRef" (part_001)
  remote,     \* the remote job service: job id -> payload, or Gone
  store,      \* projectSlice state: projects, currentProject
  view,       \* the mounted ProjectDetail component's state
  timers,     \* live setInterval timers created by pollForUpdates
  nextTid,    \* next timer handle
  timeouts,   \* pending setTimeout callbacks
  inflight,   \* outstanding HTTP requests (a bag: equal requests are counted)
  dash,       \* the mounted Dashboard component's state
  dashTimers, \* live setInterval timers created by the Dashboard's polling effect
  auth,       \* authSlice state: user, token, isAuthenticated, loading, error
  localStorage, \* localStorage.getItem('token'), Null when there is none
  location    \* window.location: "app", or "leaving" once href was assigned

vars ==
  <<impl, remote, store, view, timers, nextTid, timeouts, inflight, dash, dashTimers,
    auth, localStorage, location>>

Unmounted ==
  [mounted |-> FALSE, id |-> 0, loading |-> TRUE, error |-> NoMsg, deleting |-> FALSE,
   status |-> Null, progress |-> 0, currentStep |-> NoMsg, processing |-> FALSE,
   pollingInterval |-> 0, deleteSuccess |-> FALSE, localProject |-> 0,
   cleanupPI |-> 0]

\* useState initial values of a freshly mounted ProjectDetail for route id j.
\* localProject is kept as the id of the project it holds (0: undefined),
\* the one field of it that the handlers read.
InitialView(j) ==
  [Unmounted EXCEPT !.mounted = TRUE, !.id = j,
                    !.localProject = FindProject(store.projects, j).id]

Sent == [state |-> "sent", data |-> NoProject, list |-> << >>]
Ok(data) == [state |-> "ok", data |-> data, list |-> << >>]
OkList(ps) == [state |-> "ok", data |-> NoProject, list |-> ps]
Failed == [state |-> "fail", data |-> NoProject, list |-> << >>]

NoClosure == [status |-> Null, progress |-> 0, currentStep |-> NoMsg, pollingInterval |-> 0]

\* The values of the render in which a handler was created, restricted to
\* the ones the handler's code reads: status/progress/currentStep in
\* part_001 (lines 140-165), pollingInterval in ProjectDetail.tsx (240, 518).
Capture(v) ==
  IF impl = "useRef"
  THEN [status |-> v.status, progress |-> v.progress, currentStep |-> v.currentStep,
        pollingInterval |-> 0]
  ELSE [status |-> Null, progress |-> 0, currentStep |-> NoMsg,
        pollingInterval |-> v.pollingInterval]

\* id is the job the request addresses, route the route id that the issuing
\* render closed over (Number(id) in pollForUpdates)
Request(kind, live, j, route, tid, c) ==
  [kind |-> kind, live |-> live, id |-> j, route |-> route, tid |-> tid, c |-> c,
   resp |-> Sent, projects |-> << >>, results |-> << >>]

DetailKinds == {"load", "direct", "tick", "refresh", "start", "delete"}
GetKinds == {"load", "direct", "tick", "refresh"}

Send(infl, req) == infl (+) SetToBag({req})

Take(infl, req) == infl (-) SetToBag({req})

\* room for n more requests within the bound
Room(n) == BagCardinality(inflight) + n <= MaxInFlight

\* const currentProject = localProject || project, as an id (0: none)
CurrentProjectOf(v) ==
  IF v.localProject # 0 THEN v.localProject
  ELSE FindProject(store.projects, v.id).id

\* the main page (buttons included) is rendered: none of the early returns
\* for loading, error, deleteSuccess or a missing project is taken
Rendered(v) ==
  /\ v.mounted
  /\ ~v.loading
  /\ ~v.deleteSuccess
  /\ v.error = NoMsg
  /\ CurrentProjectOf(v) # 0

NoProgress == [has |-> FALSE, progress |-> 0, step |-> NoMsg]

\* useState({}) of projectProgress: no entry for any job
EmptyProgress == [j \in Jobs |-> NoProgress]

DashUnmounted == [mounted |-> FALSE, projectProgress |-> EmptyProgress, interval |-> None]

\* -------------------------------------------------------------- authSlice
Tokens == {"t1", "t2"}

TheUser == "user"

LoginError == <<"Login failed">>

\* initialState of the auth slice, evaluated when the page loads with ls in
\* localStorage
initialState(ls) ==
  [user |-> Null, token |-> ls, isAuthenticated |-> ls # Null, loading |-> FALSE,
   error |-> NoMsg]

\* a signed-in user on a loaded page
SignedIn ==
  /\ localStorage = "t1"
  /\ auth = [user |-> TheUser, token |-> "t1", isAuthenticated |-> TRUE, loading |-> FALSE,
             error |-> NoMsg]
  /\ location = "app"

TypeOK ==
  /\ impl \in {"useState", "useRef"}
  /\ \A j \in Jobs : remote[j] \in Payloads \cup {Gone}
  /\ view.status \in Statuses \cup {Null}
  /\ view.pollingInterval \in 0..MaxTimers
  /\ nextTid \in 1..(MaxTimers + 1)
  /\ \A t \in timers : t.tid \in 1..MaxTimers /\ t.id \in Jobs

\* a fresh page load: the store is empty, nothing is mounted, and every job
\* exists on the service and has not been started
Init ==
  /\ impl \in {"useState", "useRef"}
  /\ remote = [j \in Jobs |-> [status |-> "pending", status_message |-> NoMsg,
                              error_message |-> NoMsg]]
  /\ store = [projects |-> << >>, currentProject |-> NoProject]
  /\ view = Unmounted
  /\ timers = {}
  /\ nextTid = 1
  /\ timeouts = {}
  /\ inflight = EmptyBag
  /\ dash = DashUnmounted
  /\ dashTimers = {}
  /\ SignedIn


\* ------------------------------------------------ detail view: pure parts
\* "Parse progress from status message" of fetchProject and of the Refresh
\* button: unconditional setProgress / setCurrentStep
ParseInto(v, data) ==
  IF data.status = "processing" /\ Truthy(data.status_message)
  THEN LET m == ProgressMatch(data.status_message)
       IN  IF m.matched
           THEN [v EXCEPT !.progress = parseInt(m.g1), !.currentStep = m.g2]
           ELSE [v EXCEPT !.currentStep = data.status_message]
  ELSE v

\* setStatus of the interval callback: unconditional in ProjectDetail.tsx,
\* compared with the status of the captured render in part_001
TickStatus(v, data, c) ==
  IF impl = "useState" \/ data.status # c.status
  THEN [v EXCEPT !.status = data.status]
  ELSE v

\* progress / step of the interval callback while processing
TickProgress(v, data, c) ==
  IF data.status = "processing" /\ Truthy(data.status_message)
  THEN LET m == ProgressMatch(data.status_message)
       IN  IF m.matched
           THEN LET newProgress == parseInt(m.g1)
                    newStep == m.g2
                    v1 == IF impl = "useState" \/ newProgress # c.progress
                          THEN [v EXCEPT !.progress = newProgress] ELSE v
                IN  IF impl = "useState" \/ newStep # c.currentStep
                    THEN [v1 EXCEPT !.currentStep = newStep] ELSE v1
           ELSE IF impl = "useState" \/ data.status_message # c.currentStep
                THEN [v EXCEPT !.currentStep = data.status_message] ELSE v
  ELSE v

\* a terminal branch that forgets setProgress(100)
TickTerminalKeepsPercent(v, data) ==
  IF data.status = "completed"
  THEN [v EXCEPT !.pollingInterval = 0, !.currentStep = CompletedStep]
  ELSE IF data.status = "failed"
  THEN [v EXCEPT !.pollingInterval = 0,
                 !.currentStep = IF Truthy(data.status_message)
                                 THEN data.status_message ELSE FailedStep]
  ELSE v

\* a terminal branch that resets the percent of a failed job
TickTerminalResetsPercent(v, data) ==
  IF data.status = "completed"
  THEN [v EXCEPT !.pollingInterval = 0, !.progress = 100, !.currentStep = CompletedStep]
  ELSE IF data.status = "failed"
  THEN [v EXCEPT !.pollingInterval = 0, !.progress = 0,
                 !.currentStep = IF Truthy(data.status_message)
                                 THEN data.status_message ELSE FailedStep]
  ELSE v

\* the state writes of the "Stop polling if processing is complete" branch
TickTerminal(v, data) ==
  IF data.status = "completed"
  THEN [v EXCEPT !.pollingInterval = 0, !.progress = 100, !.currentStep = CompletedStep]
  ELSE IF data.status = "failed"
  THEN [v EXCEPT !.pollingInterval = 0,
                 !.currentStep = IF Truthy(data.status_message)
                                 THEN data.status_message ELSE FailedStep]
  ELSE v

\* all state writes of one successful interval callback, in program order
TickView(v, data, c) == TickTerminal(TickProgress(TickStatus(v, data, c), data, c), data)

\* clearInterval(h)
ClearInterval(ts, h) == {t \in ts : t.tid # h}

\* the timer that pollForUpdates creates: it closes over the route id and
\* the state of the render that created the calling handler
NewTimer(live, j, c) == [tid |-> nextTid, live |-> live, id |-> j, c |-> c]

\* the cleanup returned by the fetchProject effect: ProjectDetail.tsx reads
\* the pollingInterval of the render that ran the effect, part_001 reads
\* pollingIntervalRef.current
CleanupHandle(v) == IF impl = "useState" THEN v.cleanupPI ELSE v.pollingInterval

Cleanup(v) ==
  IF CleanupHandle(v) # 0 THEN [v EXCEPT !.pollingInterval = 0] ELSE v

\* the owner of a timer, request or timeout is gone: its setState calls no
\* longer reach a mounted component, so the state it closed over is no
\* longer observable
Orphan(x) ==
  [x EXCEPT !.live = FALSE,
            !.c = [NoClosure EXCEPT !.pollingInterval = x.c.pollingInterval]]


\* ------------------------------------------------------ the remote service
ProcessingPayloads == {p \in Payloads : p.status = "processing"}

Pending == [status |-> "pending", status_message |-> NoMsg, error_message |-> NoMsg]

\* the pipeline advances a job that is being processed
RemoteStep(j) ==
  /\ remote[j].status = "processing"
  /\ \E p \in Payloads :
       /\ p.status # "pending"
       /\ p # remote[j]
       /\ remote' = [remote EXCEPT ![j] = p]
  /\ UNCHANGED <<dash, dashTimers, impl, auth, localStorage, location, store, view, timers, nextTid, timeouts, inflight>>

Handled(infl, r, resp) == Send(Take(infl, r), [r EXCEPT !.resp = resp])

\* the service handles a request: a GET answers with the job as it is now,
\* POST process/{id} starts the job, DELETE removes it; any request may fail
ServerHandle(r) ==
  /\ r \in BagToSet(inflight)
  /\ r.kind \in DetailKinds
  /\ r.resp = Sent
  /\ \/ /\ inflight' = Handled(inflight, r, Failed)
        /\ UNCHANGED remote
     \/ /\ remote[r.id] # Gone
        /\ r.kind \in GetKinds
        /\ inflight' = Handled(inflight, r, Ok(AsProject(r.id, remote[r.id])))
        /\ UNCHANGED remote
     \/ /\ remote[r.id] # Gone
        /\ r.kind = "start"
        /\ \E p \in ProcessingPayloads : remote' = [remote EXCEPT ![r.id] = p]
        /\ inflight' = Handled(inflight, r, Ok(NoProject))
     \/ /\ remote[r.id] # Gone
        /\ r.kind = "delete"
        /\ remote' = [remote EXCEPT ![r.id] = Gone]
        /\ inflight' = Handled(inflight, r, Ok(NoProject))
  /\ UNCHANGED <<dash, dashTimers, impl, auth, localStorage, location, store, view, timers, nextTid, timeouts>>

\* ------------------------------------------- detail view: mount and unmount
\* effect [project, id] (lines 61-77): fetch the project directly when the
\* store has none, else copy the store's project into localProject
ProjectEffect(v, infl) ==
  LET p == FindProject(store.projects, v.id) IN
  IF p = NoProject
  THEN [v |-> v, infl |-> Send(infl, Request("direct", TRUE, v.id, v.id, 0, NoClosure))]
  ELSE [v |-> [v EXCEPT !.localProject = p.id], infl |-> infl]

\* body of the fetchProject effect: part_001 returns early while
\* deleteSuccess is set; rv is the render the effect closes over
FetchProjectEffect(v, rv, infl) ==
  IF impl = "useRef" /\ rv.deleteSuccess
  THEN [v |-> v, infl |-> infl]
  ELSE [v |-> [v EXCEPT !.loading = TRUE, !.error = NoMsg, !.cleanupPI = rv.pollingInterval],
        infl |-> Send(infl, Request("load", TRUE, rv.id, rv.id, 0, Capture(rv)))]

\* the route renders <ProjectDetail/> for job j: first render and its effects
MountDetail(j) ==
  /\ ~view.mounted
  /\ ~dash.mounted
  /\ Room(2)
  /\ LET v0 == InitialView(j)
         e1 == ProjectEffect(v0, inflight)
         e2 == FetchProjectEffect(e1.v, v0, e1.infl)
     IN  /\ view' = e2.v
         /\ inflight' = e2.infl
  /\ UNCHANGED <<dash, dashTimers, impl, auth, localStorage, location, remote, store, timers, nextTid, timeouts>>

\* the route parameter changes while the component stays mounted: both
\* effects re-run, the fetchProject effect after its previous cleanup
ChangeId(j) ==
  /\ view.mounted
  /\ j # view.id
  /\ Room(2)
  /\ LET rv == [view EXCEPT !.id = j]
         e1 == ProjectEffect(rv, inflight)
         e2 == FetchProjectEffect(Cleanup(e1.v), rv, e1.infl)
     IN  /\ view' = e2.v
         /\ inflight' = e2.infl
         /\ timers' = ClearInterval(timers, CleanupHandle(view))
  /\ UNCHANGED <<dash, dashTimers, impl, auth, localStorage, location, remote, store, nextTid, timeouts>>

Orphaned(xs) == {Orphan(x) : x \in xs}

RECURSIVE OrphanedRequests(_)
OrphanedRequests(infl) ==
  LET rs == {r \in BagToSet(infl) : r.kind \in DetailKinds /\ Orphan(r) # r} IN
  IF rs = {} THEN infl
  ELSE LET r == CHOOSE x \in rs : TRUE
       IN  OrphanedRequests(Send(Take(infl, r), Orphan(r)))

\* the component unmounts: the effect cleanup runs, nothing else is released
UnmountDetail ==
  /\ view.mounted
  /\ view' = Unmounted
  /\ timers' = Orphaned(ClearInterval(timers, CleanupHandle(view)))
  /\ timeouts' = Orphaned(timeouts)
  /\ inflight' = OrphanedRequests(inflight)
  /\ UNCHANGED <<dash, dashTimers, impl, auth, localStorage, location, remote, store, nextTid>>


\* ----------------------------------------------------- detail view: polling
Delivered(r, kind) ==
  /\ r \in BagToSet(inflight)
  /\ r.kind = kind
  /\ r.resp # Sent

\* a timer fires: the interval callback issues getProject(Number(id))
Tick(t) ==
  /\ t \in timers
  /\ Room(1)
  /\ inflight' = Send(inflight, Request("tick", t.live, t.id, t.id, t.tid, t.c))
  /\ UNCHANGED <<dash, dashTimers, impl, auth, localStorage, location, remote, store, view, timers, nextTid, timeouts>>

\* a fail-fast catch block: the failed tick clears its own timer
CatchTickStops(ts, h) == ClearInterval(ts, h)

\* the catch block of the interval callback: the error is logged, the
\* timer is left running
CatchTick(ts, h) == ts

\* an interval callback that arms a further timer whenever the job is
\* still running
DeliverTickRearms(r) ==
  /\ Delivered(r, "tick")
  /\ inflight' = Take(inflight, r)
  /\ IF r.resp.state = "ok"
     THEN LET rearm == ~IsTerminal(r.resp.data.status) /\ nextTid <= MaxTimers IN
          /\ view' = IF r.live THEN TickView(view, r.resp.data, r.c) ELSE view
          /\ timers' = IF IsTerminal(r.resp.data.status)
                       THEN ClearInterval(timers, r.tid)
                       ELSE IF rearm THEN timers \cup {NewTimer(r.live, r.id, r.c)}
                       ELSE timers
          /\ nextTid' = IF rearm THEN nextTid + 1 ELSE nextTid
     ELSE /\ timers' = CatchTick(timers, r.tid)
          /\ UNCHANGED <<view, nextTid>>
  /\ UNCHANGED <<dash, dashTimers, impl, auth, localStorage, location, remote, store, timeouts>>

\* the interval callback resumes after its await
DeliverTick(r) ==
  /\ Delivered(r, "tick")
  /\ inflight' = Take(inflight, r)
  /\ IF r.resp.state = "ok"
     THEN /\ view' = IF r.live THEN TickView(view, r.resp.data, r.c) ELSE view
          /\ timers' = IF IsTerminal(r.resp.data.status)
                       THEN ClearInterval(timers, r.tid) ELSE timers
     ELSE /\ timers' = CatchTick(timers, r.tid)
          /\ UNCHANGED view
  /\ UNCHANGED <<dash, dashTimers, impl, auth, localStorage, location, remote, store, nextTid, timeouts>>

\* fetchProject resumes after its await
DeliverLoad(r) ==
  /\ Delivered(r, "load")
  /\ inflight' = Take(inflight, r)
  /\ IF r.resp.state = "ok"
     THEN LET data == r.resp.data
              polls == data.status = "processing"
              v1 == ParseInto([view EXCEPT !.status = data.status], data)
              v2 == IF polls THEN [v1 EXCEPT !.pollingInterval = nextTid] ELSE v1
          IN  /\ polls => nextTid <= MaxTimers
              /\ store' = setCurrentProject(store, data)
              /\ view' = IF r.live THEN [v2 EXCEPT !.loading = FALSE] ELSE view
              /\ timers' = IF polls THEN timers \cup {NewTimer(r.live, r.route, r.c)}
                           ELSE timers
              /\ nextTid' = IF polls THEN nextTid + 1 ELSE nextTid
     ELSE /\ view' = IF r.live THEN [view EXCEPT !.error = FetchError, !.loading = FALSE]
                     ELSE view
          /\ UNCHANGED <<store, timers, nextTid>>
  /\ UNCHANGED <<dash, dashTimers, impl, auth, localStorage, location, remote, timeouts>>

\* fetchProjectDirectly resumes after its await
DeliverDirect(r) ==
  /\ Delivered(r, "direct")
  /\ inflight' = Take(inflight, r)
  /\ view' = IF ~r.live THEN view
             ELSE IF r.resp.state = "ok"
             THEN [view EXCEPT !.localProject = r.resp.data.id, !.status = r.resp.data.status]
             ELSE [view EXCEPT !.error = FetchError]
  /\ UNCHANGED <<dash, dashTimers, impl, auth, localStorage, location, remote, store, timers, nextTid, timeouts>>

\* Start Processing is clicked: handleStartProcessing up to its await
ClickStart ==
  /\ Rendered(view)
  /\ view.status \in {"pending", "failed"}
  /\ ~view.processing
  /\ Room(1)
  /\ view' = [view EXCEPT !.processing = TRUE]
  /\ inflight' = Send(inflight, Request("start", TRUE, CurrentProjectOf(view),
                                        view.id, 0, Capture(view)))
  /\ UNCHANGED <<dash, dashTimers, impl, auth, localStorage, location, remote, store, timers, nextTid, timeouts>>

\* handleStartProcessing resumes: ProjectDetail.tsx calls pollForUpdates at
\* once, part_001 from a setTimeout of one second
DeliverStart(r) ==
  /\ Delivered(r, "start")
  /\ inflight' = Take(inflight, r)
  /\ IF r.resp.state = "ok"
     THEN LET v1 == [view EXCEPT !.status = "processing", !.progress = 0,
                                 !.currentStep = StartingStep, !.processing = FALSE]
          IN  IF impl = "useState"
              THEN /\ nextTid <= MaxTimers
                   /\ view' = IF r.live THEN [v1 EXCEPT !.pollingInterval = nextTid] ELSE view
                   /\ timers' = timers \cup {NewTimer(r.live, r.route, r.c)}
                   /\ nextTid' = nextTid + 1
                   /\ UNCHANGED timeouts
              ELSE /\ view' = IF r.live THEN v1 ELSE view
                   /\ timeouts' = timeouts \cup
                        {[kind |-> "poll", live |-> r.live, route |-> r.route, c |-> r.c]}
                   /\ UNCHANGED <<timers, nextTid>>
     ELSE /\ view' = IF r.live THEN [view EXCEPT !.error = StartError, !.processing = FALSE]
                     ELSE view
          /\ UNCHANGED <<timers, nextTid, timeouts>>
  /\ UNCHANGED <<dash, dashTimers, impl, auth, localStorage, location, remote, store>>

\* the delayed start of part_001 fires: pollForUpdates()
DelayedStart(t) ==
  /\ t \in timeouts
  /\ t.kind = "poll"
  /\ nextTid <= MaxTimers
  /\ timeouts' = timeouts \ {t}
  /\ timers' = timers \cup {NewTimer(t.live, t.route, t.c)}
  /\ nextTid' = nextTid + 1
  /\ view' = IF t.live THEN [view EXCEPT !.pollingInterval = nextTid] ELSE view
  /\ UNCHANGED <<dash, dashTimers, impl, auth, localStorage, location, remote, store, inflight>>

\* Refresh Status is clicked (ProjectDetail.tsx only): the button is part of
\* the progress card, rendered while status is processing
ClickRefresh ==
  /\ impl = "useState"
  /\ Rendered(view)
  /\ view.status = "processing"
  /\ Room(1)
  /\ inflight' = Send(inflight, Request("refresh", TRUE, view.id, view.id, 0, Capture(view)))
  /\ UNCHANGED <<dash, dashTimers, impl, auth, localStorage, location, remote, store, view, timers, nextTid, timeouts>>

\* the Refresh handler resumes after its await
DeliverRefresh(r) ==
  /\ Delivered(r, "refresh")
  /\ inflight' = Take(inflight, r)
  /\ IF r.resp.state = "ok"
     THEN LET data == r.resp.data
              polls == data.status = "processing" /\ r.c.pollingInterval = 0
              v1 == ParseInto([view EXCEPT !.status = data.status], data)
          IN  /\ polls => nextTid <= MaxTimers
              /\ view' = IF ~r.live THEN view
                         ELSE IF polls THEN [v1 EXCEPT !.pollingInterval = nextTid] ELSE v1
              /\ timers' = IF polls THEN timers \cup {NewTimer(r.live, r.route, r.c)}
                           ELSE timers
              /\ nextTid' = IF polls THEN nextTid + 1 ELSE nextTid
     ELSE UNCHANGED <<view, timers, nextTid>>
  /\ UNCHANGED <<dash, dashTimers, impl, auth, localStorage, location, remote, store, timeouts>>

\* ---------------------------------------------------------------- dashboard
NonTerminal(p) == p.status = "processing" \/ p.status = "pending"

IsProcessing(p) == p.status = "processing"

\* a filter that forgets the pending jobs
processingOnly(ps) == SelectSeq(ps, IsProcessing)

\* projects.filter(p => p.status === 'processing' || p.status === 'pending')
processingProjects(ps) == SelectSeq(ps, NonTerminal)

\* the entry that the forEach loops leave for job j: the last project of ps
\* with that id that passes the loop's condition and matches the grammar
RECURSIVE ProgressEntry(_, _, _)
ProgressEntry(ps, j, needStatus) ==
  IF ps = << >> THEN NoProgress
  ELSE LET p == ps[Len(ps)]
           m == ProgressMatch(p.error_message)
       IN  IF /\ p.id = j
              /\ needStatus => NonTerminal(p)
              /\ Truthy(p.error_message)
              /\ m.matched
           THEN [has |-> TRUE, progress |-> parseInt(m.g1), step |-> m.g2]
           ELSE ProgressEntry(SubSeq(ps, 1, Len(ps) - 1), j, needStatus)

\* progressData of fetchProjects (needStatus) and of the interval callback
ProgressData(ps, needStatus) == [j \in Jobs |-> ProgressEntry(ps, j, needStatus)]

\* the polling effect for a projects list: no timer when nothing is
\* pending or processing, else a timer that closes over the filtered list
PollingEffect(ps) ==
  IF processingProjects(ps) = << >> THEN None
  ELSE [projects |-> processingProjects(ps)]

\* an effect re-run whose cleanup does not clear the previous timer
ReconciledKeepsOld(ts, d, ps) == ts \cup ({PollingEffect(ps)} \ {None})

\* the effect re-runs for a new projects array: cleanup of the previous run
\* (clearInterval of its own timer), then the effect body
Reconciled(ts, d, ps) == (ts \ {d.interval}) \cup ({PollingEffect(ps)} \ {None})

RECURSIVE RemoteList(_)
RemoteList(n) ==
  IF n = 0 THEN << >>
  ELSE IF remote[n] = Gone THEN RemoteList(n - 1)
       ELSE Append(RemoteList(n - 1), AsProject(n, remote[n]))

\* GET /api/v1/projects/ is handled
ServerList(r) ==
  /\ r \in BagToSet(inflight)
  /\ r.kind = "list"
  /\ r.resp = Sent
  /\ \/ inflight' = Handled(inflight, r, Failed)
     \/ inflight' = Handled(inflight, r, OkList(RemoteList(NumJobs)))
  /\ UNCHANGED <<dash, dashTimers, impl, auth, localStorage, location, remote, store, view, timers, nextTid, timeouts>>

\* first render of <Dashboard/> and its two effects: fetchProjects is
\* issued, the polling effect runs for the projects already in the store
MountedDash == [mounted |-> TRUE, projectProgress |-> EmptyProgress,
                interval |-> PollingEffect(store.projects)]

DashMount ==
  /\ ~dash.mounted
  /\ ~view.mounted
  /\ Room(1)
  /\ dash' = MountedDash
  /\ dashTimers' = Reconciled(dashTimers, dash, store.projects)
  /\ inflight' = Send(inflight, Request("list", TRUE, 0, 0, 0, NoClosure))
  /\ UNCHANGED <<impl, auth, localStorage, location, remote, store, view, timers, nextTid, timeouts>>

DashKinds == {"list", "batch"}

OrphanDash(r) == [r EXCEPT !.live = FALSE]

RECURSIVE OrphanedDashRequests(_)
OrphanedDashRequests(infl) ==
  LET rs == {r \in BagToSet(infl) : r.kind \in DashKinds /\ r.live} IN
  IF rs = {} THEN infl
  ELSE LET r == CHOOSE x \in rs : TRUE
       IN  OrphanedDashRequests(Send(Take(infl, r), OrphanDash(r)))

\* the Dashboard unmounts: the polling effect's cleanup clears its timer
DashUnmount ==
  /\ dash.mounted
  /\ dash' = DashUnmounted
  /\ dashTimers' = dashTimers \ {dash.interval}
  /\ inflight' = OrphanedDashRequests(inflight)
  /\ UNCHANGED <<impl, auth, localStorage, location, remote, store, view, timers, nextTid, timeouts>>

\* what a change of state.projects does to a mounted ProjectDetail: the
\* [project, id] effect re-runs when the selected project is a new object
ProjectChanged(v, infl, before, after) ==
  IF ~v.mounted THEN [v |-> v, infl |-> infl]
  ELSE IF FindProject(after, v.id) # NoProject
  THEN [v |-> [v EXCEPT !.localProject = v.id], infl |-> infl]
  ELSE IF FindProject(before, v.id) # NoProject
  THEN [v |-> v, infl |-> Send(infl, Request("direct", TRUE, v.id, v.id, 0, NoClosure))]
  ELSE [v |-> v, infl |-> infl]

\* fetchProjects resumes after its await: fetchProjectsSuccess and
\* setProjectProgress, or fetchProjectsFailure
DeliverList(r) ==
  /\ Delivered(r, "list")
  /\ IF r.resp.state = "ok"
     THEN LET after == fetchProjectsSuccess(store, r.resp.list)
              e1 == ProjectChanged(view, Take(inflight, r), store.projects, after.projects)
          IN  /\ store' = after
              /\ dash' = IF dash.mounted
                         THEN [dash EXCEPT
                                 !.projectProgress = IF r.live THEN ProgressData(r.resp.list, TRUE)
                                                     ELSE @,
                                 !.interval = PollingEffect(after.projects)]
                         ELSE dash
              /\ dashTimers' = IF dash.mounted
                               THEN Reconciled(dashTimers, dash, after.projects)
                               ELSE dashTimers
              /\ view' = e1.v
              /\ inflight' = e1.infl
     ELSE /\ inflight' = Take(inflight, r)
          /\ UNCHANGED <<store, dash, dashTimers, view>>
  /\ UNCHANGED <<impl, auth, localStorage, location, remote, timers, nextTid, timeouts>>

\* the dashboard timer fires: Promise.all over one getProject per captured
\* project, all issued in the same callback
DashTick(t) ==
  /\ t \in dashTimers
  /\ Room(1)
  /\ inflight' = Send(inflight,
       [Request("batch", TRUE, 0, 0, 0, NoClosure) EXCEPT
          !.projects = t.projects,
          !.results = [k \in 1..Len(t.projects) |-> Sent]])
  /\ UNCHANGED <<dash, dashTimers, impl, auth, localStorage, location, remote, store, view, timers, nextTid, timeouts>>

AllSettled(results) == \A k \in 1..Len(results) : results[k] # Sent

\* one getProject of a dashboard tick settles: the value of its promise is
\* the fetched project, or the captured project when the fetch fails (the
\* inner catch)
BatchSettle(b, k) ==
  /\ b \in BagToSet(inflight)
  /\ b.kind = "batch"
  /\ k \in 1..Len(b.results)
  /\ b.results[k] = Sent
  /\ \E res \in {Ok(AsProject(b.projects[k].id, remote[b.projects[k].id])),
                 [Failed EXCEPT !.data = b.projects[k]]} :
       /\ res.state = "ok" => remote[b.projects[k].id] # Gone
       /\ inflight' = Send(Take(inflight, b), [b EXCEPT !.results[k] = res])
  /\ UNCHANGED <<dash, dashTimers, impl, auth, localStorage, location, remote, store, view, timers, nextTid, timeouts>>

\* updatedProjects, the value of Promise.all
updatedProjects(b) == [i \in 1..Len(b.results) |-> b.results[i].data]

\* Promise.all has resolved and the interval callback resumes after its
\* await: progressData is built from updatedProjects and setProjectProgress
\* is called; nothing is dispatched to the store
DashTickResume(b) ==
  /\ b \in BagToSet(inflight)
  /\ b.kind = "batch"
  /\ AllSettled(b.results)
  /\ inflight' = Take(inflight, b)
  /\ dash' = IF b.live
             THEN [dash EXCEPT !.projectProgress = ProgressData(updatedProjects(b), FALSE)]
             ELSE dash
  /\ UNCHANGED <<dashTimers, impl, auth, localStorage, location, remote, store, view, timers, nextTid, timeouts>>

\* handleProjectClick on a project card: setCurrentProject(project) and
\* navigate to the detail route, where the store already has the project
OpenProject(j) ==
  /\ dash.mounted
  /\ FindProject(store.projects, j) # NoProject
  /\ Room(1)
  /\ store' = setCurrentProject(store, FindProject(store.projects, j))
  /\ dash' = DashUnmounted
  /\ dashTimers' = dashTimers \ {dash.interval}
  /\ LET v0 == InitialView(j)
         e2 == FetchProjectEffect(v0, v0, OrphanedDashRequests(inflight))
     IN  /\ view' = e2.v
         /\ inflight' = e2.infl
  /\ UNCHANGED <<impl, auth, localStorage, location, remote, timers, nextTid, timeouts>>


\* ---------------------------------------------------- detail view: deletion
\* the delete dialog is confirmed: handleDelete up to its await.  part_001
\* sets deleteSuccess first, which re-runs the fetchProject effect (its
\* cleanup, then a fetchProject that returns early)
ClickDelete ==
  /\ Rendered(view)
  /\ ~view.deleting
  /\ Room(1)
  /\ LET v1 == [view EXCEPT !.deleting = TRUE, !.error = NoMsg]
         req == Request("delete", TRUE, CurrentProjectOf(view), view.id, 0, NoClosure)
     IN  IF impl = "useState"
         THEN /\ view' = v1
              /\ UNCHANGED timers
              /\ inflight' = Send(inflight, req)
         ELSE /\ view' = Cleanup([v1 EXCEPT !.deleteSuccess = TRUE])
              /\ timers' = ClearInterval(timers, CleanupHandle(view))
              /\ inflight' = Send(inflight, req)
  /\ UNCHANGED <<dash, dashTimers, impl, auth, localStorage, location, remote, store, nextTid, timeouts>>

\* the page is replaced: a mounted ProjectDetail unmounts (effect cleanup)
LeaveDetail(infl, tos) ==
  IF view.mounted
  THEN /\ view' = Unmounted
       /\ timers' = Orphaned(ClearInterval(timers, CleanupHandle(view)))
       /\ timeouts' = Orphaned(tos)
       /\ inflight' = OrphanedRequests(infl)
  ELSE /\ inflight' = infl
       /\ timeouts' = tos
       /\ UNCHANGED <<view, timers>>

\* handleDelete resumes after its await: on success deleteProject is
\* dispatched and the view navigates ('/projects' at once in
\* ProjectDetail.tsx, '/dashboard' 1.5 s later in part_001); on failure the
\* error is set (part_001: deleteSuccess is reset, which re-runs the
\* fetchProject effect)
DeliverDelete(r) ==
  LET infl == Take(inflight, r) IN
  /\ Delivered(r, "delete")
  /\ IF r.resp.state = "ok"
     THEN LET after == deleteProject(store, r.id) IN
          /\ store' = after
          /\ IF impl = "useState"
             THEN /\ LeaveDetail(OrphanedDashRequests(infl), timeouts)
                  /\ dash' = DashUnmounted
                  /\ dashTimers' = dashTimers \ {dash.interval}
             ELSE LET e1 == ProjectChanged(view, infl, store.projects, after.projects) IN
                  /\ view' = IF r.live THEN [e1.v EXCEPT !.deleting = FALSE] ELSE e1.v
                  /\ inflight' = e1.infl
                  /\ timeouts' = timeouts \cup
                       {[kind |-> "nav", live |-> r.live, route |-> r.route, c |-> NoClosure]}
                  /\ dash' = IF dash.mounted
                             THEN [dash EXCEPT !.interval = PollingEffect(after.projects)]
                             ELSE dash
                  /\ dashTimers' = IF dash.mounted
                                   THEN Reconciled(dashTimers, dash, after.projects)
                                   ELSE dashTimers
                  /\ UNCHANGED timers
     ELSE /\ UNCHANGED <<store, timeouts, dash, dashTimers>>
          /\ IF ~r.live
             THEN /\ inflight' = infl
                  /\ UNCHANGED <<view, timers>>
             ELSE IF impl = "useState"
             THEN /\ view' = [view EXCEPT !.error = DeleteError, !.deleting = FALSE]
                  /\ inflight' = infl
                  /\ UNCHANGED timers
             ELSE LET rv == [view EXCEPT !.deleteSuccess = FALSE, !.error = DeleteError,
                                         !.deleting = FALSE]
                      e2 == FetchProjectEffect(Cleanup(rv), rv, infl)
                  IN  /\ view' = e2.v
                      /\ inflight' = e2.infl
                      /\ timers' = ClearInterval(timers, CleanupHandle(view))
  /\ UNCHANGED <<impl, auth, localStorage, location, remote, nextTid>>

\* the delayed navigate('/dashboard') of part_001 fires: ProjectDetail
\* unmounts and the Dashboard mounts
DelayedNavigate(t) ==
  /\ t \in timeouts
  /\ t.kind = "nav"
  /\ Room(1)
  /\ IF dash.mounted
     THEN /\ LeaveDetail(inflight, timeouts \ {t})
          /\ UNCHANGED <<dash, dashTimers>>
     ELSE /\ LeaveDetail(Send(inflight, Request("list", TRUE, 0, 0, 0, NoClosure)),
                         timeouts \ {t})
          /\ dash' = MountedDash
          /\ dashTimers' = Reconciled(dashTimers, dash, store.projects)
  /\ UNCHANGED <<impl, auth, localStorage, location, remote, store, nextTid>>

\* ---------------------------------------------------------- specification
Requests == BagToSet(inflight)

\* the detail view and its poller
NextPoll ==
  \/ \E j \in Jobs : RemoteStep(j)
  \/ \E r \in Requests : ServerHandle(r)
  \/ \E j \in Jobs : MountDetail(j)
  \/ UnmountDetail
  \/ \E t \in timers : Tick(t)
  \/ \E r \in Requests : DeliverTick(r)
  \/ \E r \in Requests : DeliverLoad(r)
  \/ \E r \in Requests : DeliverDirect(r)
  \/ ClickStart
  \/ \E r \in Requests : DeliverStart(r)
  \/ \E t \in timeouts : DelayedStart(t)
  \/ ClickRefresh
  \/ \E r \in Requests : DeliverRefresh(r)

Spec == Init /\ [][NextPoll]_vars

\* the dashboard on its own; the detail view variant plays no part in it,
\* and jobs of earlier sessions exist in any status
NextDash ==
  \/ \E j \in Jobs : RemoteStep(j)
  \/ \E r \in Requests : ServerList(r)
  \/ DashMount
  \/ DashUnmount
  \/ \E r \in Requests : DeliverList(r)
  \/ \E t \in dashTimers : DashTick(t)
  \/ \E b \in Requests : \E k \in 1..NumJobs : BatchSettle(b, k)
  \/ \E b \in Requests : DashTickResume(b)

InitDash ==
  /\ impl = "useState"
  /\ remote \in [Jobs -> Payloads]
  /\ store = [projects |-> << >>, currentProject |-> NoProject]
  /\ view = Unmounted
  /\ timers = {}
  /\ nextTid = 1
  /\ timeouts = {}
  /\ inflight = EmptyBag
  /\ dash = DashUnmounted
  /\ dashTimers = {}
  /\ SignedIn

SpecDash == InitDash /\ [][NextDash]_vars

\* deletion from the detail view, with the navigation between the pages
NextDelete ==
  \/ \E r \in Requests : ServerHandle(r)
  \/ \E r \in Requests : ServerList(r)
  \/ DashMount
  \/ DashUnmount
  \/ \E r \in Requests : DeliverList(r)
  \/ \E j \in Jobs : OpenProject(j)
  \/ \E j \in Jobs : MountDetail(j)
  \/ UnmountDetail
  \/ \E r \in Requests : DeliverLoad(r)
  \/ \E r \in Requests : DeliverDirect(r)
  \/ ClickDelete
  \/ \E r \in Requests : DeliverDelete(r)
  \/ \E t \in timeouts : DelayedNavigate(t)
  \/ \E t \in timers : Tick(t)
  \/ \E r \in Requests : DeliverTick(r)

\* as Init, with jobs that are already being processed when the page loads
InitDelete ==
  /\ impl \in {"useState", "useRef"}
  /\ remote \in [Jobs -> ProcessingPayloads \cup {Pending}]
  /\ store = [projects |-> << >>, currentProject |-> NoProject]
  /\ view = Unmounted
  /\ timers = {}
  /\ nextTid = 1
  /\ timeouts = {}
  /\ inflight = EmptyBag
  /\ dash = DashUnmounted
  /\ dashTimers = {}
  /\ SignedIn

SpecDelete == InitDelete /\ [][NextDelete]_vars

\* status messages as inputs: the grammar "Progress <N>%: <text>" after an
\* optional prefix, with and without blanks around the text
ParseNumbers ==
  {[n |-> 7, ds |-> <<"7">>], [n |-> 10, ds |-> <<"1","0">>],
   [n |-> 150, ds |-> <<"1","5","0">>]}

ParseTexts == {<<"o","k">>, <<"o","k"," ">>, <<" ","o","k">>, <<"a"," ","b">>}

ParsePrefixes == {<< >>, <<"x"," ">>}

ParseCases == [pre : ParsePrefixes, num : ParseNumbers, text : ParseTexts]

Msg(c) == c.pre \o ProgressLit \o c.num.ds \o PercentLit \o c.text

GrammarMessages == {Msg(c) : c \in ParseCases}

\* a processing job with any of these messages, with a message outside the
\* grammar, or with none
SamePayloads ==
  {[status |-> "processing", status_message |-> m, error_message |-> m] :
     m \in GrammarMessages \cup {MsgPlain, NoMsg}}

\* "Progress 7%: ok"
MsgSeven == Msg([pre |-> << >>, num |-> [n |-> 7, ds |-> <<"7">>], text |-> <<"o","k">>])

\* the two message fields of a job are separate fields of the payload: the
\* progress text in one of them only, and a pending job that carries it
FieldPayloads ==
  { [status |-> "processing", status_message |-> MsgSeven, error_message |-> NoMsg],
    [status |-> "processing", status_message |-> NoMsg,    error_message |-> MsgSeven],
    [status |-> "pending",    status_message |-> MsgSeven, error_message |-> MsgSeven] }

ParsePayloads == SamePayloads \cup FieldPayloads

\* how a run can end: completed, or failed with or without a message
FinishedPayloads ==
  {[status |-> "completed", status_message |-> NoMsg, error_message |-> NoMsg]}
  \cup {[status |-> "failed", status_message |-> m, error_message |-> m] :
          m \in {NoMsg, MsgBoom}}

\* the pipeline ends a job that is being processed
RemoteFinish(j) ==
  /\ remote[j] \in ParsePayloads
  /\ \E p \in FinishedPayloads : remote' = [remote EXCEPT ![j] = p]
  /\ UNCHANGED <<dash, dashTimers, impl, auth, localStorage, location, store, view, timers, nextTid, timeouts, inflight>>

\* every site that reads a status message, on a job that is being processed
\* when the page loads; the page that is opened stays open
NextParse ==
  \/ \E j \in Jobs : RemoteFinish(j)
  \/ \E r \in Requests : ServerHandle(r)
  \/ \E r \in Requests : ServerList(r)
  \/ \E j \in Jobs : MountDetail(j)
  \/ \E r \in Requests : DeliverLoad(r)
  \/ \E r \in Requests : DeliverDirect(r)
  \/ \E t \in timers : Tick(t)
  \/ \E r \in Requests : DeliverTick(r)
  \/ ClickRefresh
  \/ \E r \in Requests : DeliverRefresh(r)
  \/ DashMount
  \/ \E r \in Requests : DeliverList(r)
  \/ \E t \in dashTimers : DashTick(t)
  \/ \E b \in Requests : \E k \in 1..NumJobs : BatchSettle(b, k)
  \/ \E b \in Requests : DashTickResume(b)

InitParse ==
  /\ impl \in {"useState", "useRef"}
  /\ \E p \in ParsePayloads : remote = [j \in Jobs |-> IF j = 1 THEN p ELSE Pending]
  /\ store = [projects |-> << >>, currentProject |-> NoProject]
  /\ view = Unmounted
  /\ timers = {}
  /\ nextTid = 1
  /\ timeouts = {}
  /\ inflight = EmptyBag
  /\ dash = DashUnmounted
  /\ dashTimers = {}
  /\ SignedIn

SpecParse == InitParse /\ [][NextParse]_vars

\* ------------------------------------------------------------ project create
\* createProjectSuccess: state.projects.push(action.payload)
createProjectSuccess(st, payload) == [st EXCEPT !.projects = Append(@, payload)]

\* a create request is outstanding: the form is submitting
Submitting == \E r \in BagToSet(inflight) : r.kind = "create"

\* the form of the create page is submitted: onSubmit up to its await.  The
\* page is the one shown when neither the dashboard nor a detail view is.
ClickCreate ==
  /\ ~dash.mounted
  /\ ~view.mounted
  /\ ~Submitting
  /\ \E j \in Jobs : remote[j] = Gone
  /\ Room(1)
  /\ inflight' = Send(inflight, Request("create", TRUE, 0, 0, 0, NoClosure))
  /\ UNCHANGED <<dash, dashTimers, impl, auth, localStorage, location, remote, store, view, timers, nextTid, timeouts>>

\* POST /api/v1/projects/ is handled: the service stores a new pending job
\* under the next free id and answers with it, or the request fails
ServerCreate(r) ==
  /\ r \in BagToSet(inflight)
  /\ r.kind = "create"
  /\ r.resp = Sent
  /\ \/ /\ inflight' = Handled(inflight, r, Failed)
        /\ UNCHANGED remote
     \/ LET j == CHOOSE i \in Jobs : remote[i] = Gone /\ \A k \in Jobs : remote[k] = Gone => i <= k
        IN  /\ remote' = [remote EXCEPT ![j] = Pending]
            /\ inflight' = Handled(inflight, r, Ok(AsProject(j, Pending)))
  /\ UNCHANGED <<dash, dashTimers, impl, auth, localStorage, location, store, view, timers, nextTid, timeouts>>

\* onSubmit resumes after its await: createProjectSuccess(project) and
\* navigate to the detail route of the new project, whose effects run; on
\* failure the error is shown on the form
DeliverCreate(r) ==
  /\ Delivered(r, "create")
  /\ IF r.resp.state = "ok"
     THEN LET after == createProjectSuccess(store, r.resp.data)
              v0 == [Unmounted EXCEPT !.mounted = TRUE, !.id = r.resp.data.id,
                                      !.localProject = FindProject(after.projects, r.resp.data.id).id]
              e2 == FetchProjectEffect(v0, v0, Take(inflight, r))
          IN  /\ store' = after
              /\ view' = e2.v
              /\ inflight' = e2.infl
     ELSE /\ inflight' = Take(inflight, r)
          /\ UNCHANGED <<store, view>>
  /\ UNCHANGED <<dash, dashTimers, impl, auth, localStorage, location, remote, timers, nextTid, timeouts>>

\* the create page, the dashboard and the detail page of a created project;
\* the user stays on the create page while the form is submitting
NextCreate ==
  \/ ClickCreate
  \/ \E r \in Requests : ServerCreate(r)
  \/ \E r \in Requests : DeliverCreate(r)
  \/ ~Submitting /\ DashMount
  \/ DashUnmount
  \/ \E r \in Requests : ServerList(r)
  \/ \E r \in Requests : DeliverList(r)
  \/ \E r \in Requests : ServerHandle(r)
  \/ \E r \in Requests : DeliverLoad(r)
  \/ UnmountDetail

\* a fresh page load with one job on the service and one id still free
InitCreate ==
  /\ impl \in {"useState", "useRef"}
  /\ remote = [j \in Jobs |-> IF j = 1 THEN Pending ELSE Gone]
  /\ store = [projects |-> << >>, currentProject |-> NoProject]
  /\ view = Unmounted
  /\ timers = {}
  /\ nextTid = 1
  /\ timeouts = {}
  /\ inflight = EmptyBag
  /\ dash = DashUnmounted
  /\ dashTimers = {}
  /\ SignedIn

SpecCreate == InitCreate /\ [][NextCreate]_vars

\* ------------------------------------------- the detail poller, to its end
\* one detail view opened from the dashboard's list on job 1 while it is
\* being processed, and kept open
NextLive ==
  \/ MountDetail(1)
  \/ RemoteStep(1)
  \/ \E r \in Requests : ServerHandle(r)
  \/ \E r \in Requests : DeliverLoad(r)
  \/ \E t \in timers : Tick(t)
  \/ \E r \in Requests : DeliverTick(r)

\* the store holds the list that the dashboard fetched
InitLive ==
  /\ impl \in {"useState", "useRef"}
  /\ \E p \in ProcessingPayloads :
       /\ remote = [j \in Jobs |-> IF j = 1 THEN p ELSE Pending]
       /\ store = [projects |-> <<AsProject(1, p), AsProject(2, Pending)>>,
                   currentProject |-> AsProject(1, p)]
  /\ view = Unmounted
  /\ timers = {}
  /\ nextTid = 1
  /\ timeouts = {}
  /\ inflight = EmptyBag
  /\ dash = DashUnmounted
  /\ dashTimers = {}
  /\ SignedIn

SpecLive == InitLive /\ [][NextLive]_vars

\* -------------------------------------------------- the route id changes
\* a detail view whose route parameter changes from one job to another
\* while the component stays mounted
NextRoute ==
  \/ \E j \in Jobs : RemoteStep(j)
  \/ \E r \in Requests : ServerHandle(r)
  \/ \E j \in Jobs : MountDetail(j)
  \/ \E j \in Jobs : ChangeId(j)
  \/ \E r \in Requests : DeliverLoad(r)
  \/ \E r \in Requests : DeliverDirect(r)
  \/ \E t \in timers : Tick(t)
  \/ \E r \in Requests : DeliverTick(r)

\* every job exists on the service, not started or being processed
InitRoute ==
  /\ impl \in {"useState", "useRef"}
  /\ remote \in [Jobs -> ProcessingPayloads \cup {Pending}]
  /\ store = [projects |-> << >>, currentProject |-> NoProject]
  /\ view = Unmounted
  /\ timers = {}
  /\ nextTid = 1
  /\ timeouts = {}
  /\ inflight = EmptyBag
  /\ dash = DashUnmounted
  /\ dashTimers = {}
  /\ SignedIn

SpecRoute == InitRoute /\ [][NextRoute]_vars

\* --------------------------------------------------------- authentication
\* reducers of the auth slice; the localStorage writes of loginSuccess and
\* logout are made by the actions that dispatch them
loginStart(a) == [a EXCEPT !.loading = TRUE, !.error = NoMsg]

loginSuccess(a, t) == [a EXCEPT !.loading = FALSE, !.isAuthenticated = TRUE, !.token = t]

loginFailure(a, e) == [a EXCEPT !.loading = FALSE, !.error = e]

setUser(a, u) == [a EXCEPT !.user = u]

logout(a) == [a EXCEPT !.user = Null, !.token = Null, !.isAuthenticated = FALSE]

\* restoreAuthState reads localStorage (ls) and writes only when a token is there
restoreAuthState(a, ls) ==
  IF ls # Null THEN [a EXCEPT !.token = ls, !.isAuthenticated = TRUE] ELSE a

setLoading(a, b) == [a EXCEPT !.loading = b]

AuthKinds == {"login", "loginme", "me"}

OkToken(t) == [state |-> "ok", data |-> NoProject, list |-> << >>, token |-> t]

Unauthorized == [state |-> "401", data |-> NoProject, list |-> << >>]

\* the response interceptor of the api client: on 401 the token is removed
\* and window.location.href is assigned
InterceptedStorage(r) == IF r.resp = Unauthorized THEN Null ELSE localStorage

InterceptedLocation(r) == IF r.resp = Unauthorized THEN "leaving" ELSE location

\* the page is loaded, or loaded again: every component and the store start
\* afresh, requests of the previous page are gone, and the App effect runs:
\* with a stored token it sets loading, restores the auth state and calls
\* getCurrentUser
AppLoad ==
  /\ auth' = IF localStorage # Null
             THEN restoreAuthState(setLoading(initialState(localStorage), TRUE), localStorage)
             ELSE initialState(localStorage)
  /\ inflight' = IF localStorage # Null
                 THEN SetToBag({Request("me", TRUE, 0, 0, 0, NoClosure)})
                 ELSE EmptyBag
  /\ location' = "app"
  /\ store' = [projects |-> << >>, currentProject |-> NoProject]
  /\ view' = Unmounted
  /\ timers' = {}
  /\ nextTid' = 1
  /\ timeouts' = {}
  /\ dash' = DashUnmounted
  /\ dashTimers' = {}
  /\ UNCHANGED <<impl, remote, localStorage>>

\* the login form is submitted: onSubmit up to its first await
ClickLogin ==
  /\ ~(\E r \in BagToSet(inflight) : r.kind \in {"login", "loginme"})
  /\ Room(1)
  /\ auth' = loginStart(auth)
  /\ inflight' = Send(inflight, Request("login", TRUE, 0, 0, 0, NoClosure))
  /\ UNCHANGED <<impl, remote, store, view, timers, nextTid, timeouts, dash, dashTimers,
                 localStorage, location>>

\* the service answers a login or a /me request: with a token or the user,
\* with 401, or not at all (network error, timeout, 5xx)
ServerAuth(r) ==
  /\ r \in BagToSet(inflight)
  /\ r.kind \in AuthKinds
  /\ r.resp = Sent
  /\ \E resp \in {Failed, Unauthorized, Ok(NoProject)} \cup {OkToken(t) : t \in Tokens} :
       /\ resp.state = "ok" => (r.kind = "login" <=> resp # Ok(NoProject))
       /\ inflight' = Handled(inflight, r, resp)
  /\ UNCHANGED <<impl, remote, store, view, timers, nextTid, timeouts, dash, dashTimers,
                 auth, localStorage, location>>

\* onSubmit of the login form resumes after authService.login
DeliverLogin(r) ==
  /\ Delivered(r, "login")
  /\ location' = InterceptedLocation(r)
  /\ IF r.resp.state = "ok"
     THEN /\ auth' = loginSuccess(auth, r.resp.token)
          /\ localStorage' = r.resp.token
          /\ inflight' = Send(Take(inflight, r), Request("loginme", TRUE, 0, 0, 0, NoClosure))
     ELSE /\ auth' = loginFailure(auth, LoginError)
          /\ localStorage' = InterceptedStorage(r)
          /\ inflight' = Take(inflight, r)
  /\ UNCHANGED <<impl, remote, store, view, timers, nextTid, timeouts, dash, dashTimers>>

\* onSubmit resumes after getCurrentUser: setUser, or the error is logged
DeliverLoginMe(r) ==
  /\ Delivered(r, "loginme")
  /\ inflight' = Take(inflight, r)
  /\ location' = InterceptedLocation(r)
  /\ localStorage' = InterceptedStorage(r)
  /\ auth' = IF r.resp.state = "ok" THEN setUser(auth, TheUser) ELSE auth
  /\ UNCHANGED <<impl, remote, store, view, timers, nextTid, timeouts, dash, dashTimers>>

\* getCurrentUser of the App effect settles: then(setUser, setLoading(false))
\* or catch(removeItem, restoreAuthState, setLoading(false))
DeliverMe(r) ==
  /\ Delivered(r, "me")
  /\ inflight' = Take(inflight, r)
  /\ location' = InterceptedLocation(r)
  /\ IF r.resp.state = "ok"
     THEN /\ auth' = setLoading(setUser(auth, TheUser), FALSE)
          /\ UNCHANGED localStorage
     ELSE /\ localStorage' = Null
          /\ auth' = setLoading(restoreAuthState(auth, Null), FALSE)
  /\ UNCHANGED <<impl, remote, store, view, timers, nextTid, timeouts, dash, dashTimers>>

\* Logout in the navigation bar
ClickLogout ==
  /\ auth.isAuthenticated
  /\ auth' = logout(auth)
  /\ localStorage' = Null
  /\ UNCHANGED <<impl, remote, store, view, timers, nextTid, timeouts, inflight, dash,
                 dashTimers, location>>

NextAuth ==
  \/ AppLoad
  \/ ClickLogin
  \/ \E r \in Requests : ServerAuth(r)
  \/ \E r \in Requests : DeliverLogin(r)
  \/ \E r \in Requests : DeliverLoginMe(r)
  \/ \E r \in Requests : DeliverMe(r)
  \/ ClickLogout

\* the page has just been loaded with a stored token
InitAuth ==
  /\ impl \in {"useState", "useRef"}
  /\ remote = [j \in Jobs |-> Pending]
  /\ localStorage = "t1"
  /\ auth = IF localStorage # Null
            THEN restoreAuthState(setLoading(initialState(localStorage), TRUE), localStorage)
            ELSE initialState(localStorage)
  /\ inflight = IF localStorage # Null
                THEN SetToBag({Request("me", TRUE, 0, 0, 0, NoClosure)})
                ELSE EmptyBag
  /\ location = "app"
  /\ store = [projects |-> << >>, currentProject |-> NoProject]
  /\ view = Unmounted
  /\ timers = {}
  /\ nextTid = 1
  /\ timeouts = {}
  /\ dash = DashUnmounted
  /\ dashTimers = {}

SpecAuth == InitAuth /\ [][NextAuth]_vars

\* ------------------------------------------------------------------ claims
\* the step that resumes the interval callback of tick request r
TickResumes(r) ==
  /\ r.kind = "tick"
  /\ r.resp # Sent
  /\ inflight' = Take(inflight, r)

Displayed(v) == <<v.status, v.progress, v.currentStep>>

\* C1: at any time at most one poll timer is running per job id.
C1_OneTimerPerJob ==
  \A t1 \in timers : \A t2 \in timers : t1.id = t2.id => t1 = t2

\* C2: a tick response that arrives after its timer has been stopped is
\* discarded: it changes neither the displayed status nor the percent nor
\* the step.
C2_StoppedTickDiscarded ==
  [][\A r \in Requests :
       (TickResumes(r) /\ ~(\E t \in timers : t.tid = r.tid))
         => Displayed(view') = Displayed(view)]_vars

\* the job has been deleted on the service and the client has run
\* deleteProject for it: no successful delete response is still to be handled
Removed(j) ==
  /\ remote[j] = Gone
  /\ ~(\E r \in Requests : r.kind = "delete" /\ r.id = j /\ r.resp.state = "ok")

InStore(j) == j \in Ids(store.projects) \/ store.currentProject.id = j

\* C3: once deleteProject has removed a job, the store has no entry for its
\* id, neither in projects nor as currentProject, whatever arrives later.
C3_NoReinsert == \A j \in Jobs : Removed(j) => ~InStore(j)

\* C4: a tick of the mounted view whose fetch returns completed or failed
\* leaves that status displayed when it cancels its timer.
C4_TerminalApplied ==
  [][\A r \in Requests :
       (TickResumes(r) /\ r.live /\ r.resp.state = "ok" /\ IsTerminal(r.resp.data.status))
         => view'.status = r.resp.data.status]_vars

\* C5: a tick whose fetch fails leaves every timer running and the view,
\* with its displayed status, percent and step, exactly as it was.
C5_FailedTickKeepsPolling ==
  [][\A r \in Requests :
       (TickResumes(r) /\ r.resp.state = "fail")
         => (timers' = timers /\ view' = view)]_vars

\* a failed tick response is about to be handled while its timer runs and
\* the view shows a job in progress
C5_Witness ==
  \E r \in Requests :
    /\ r.kind = "tick" /\ r.live /\ r.resp.state = "fail"
    /\ \E t \in timers : t.tid = r.tid
    /\ view.status = "processing" /\ view.progress = 10

\* C6: every running poll timer belongs to the mounted detail view: none
\* created by a view is running after that view was unmounted.
C6_NoTimerOutlivesView == \A t \in timers : t.live

\* C7: while a delete request for a job is outstanding, the job is in the
\* store no more and no poll timer is running for it.
C7_DeregisteredBeforeDelete ==
  \A r \in Requests :
    r.kind = "delete" => (~InStore(r.id) /\ \A t \in timers : t.id # r.id)

\* the ids that the dashboard's timers fetch
DashFetched == UNION {Ids(t.projects) : t \in dashTimers}

\* the stored jobs whose status is pending or processing
StoredNonTerminal ==
  {j \in Ids(store.projects) :
     FindProject(store.projects, j).status \in {"pending", "processing"}}

\* C8: while the dashboard is mounted, its timer fetches exactly the stored
\* jobs whose status is pending or processing; when there is none, no
\* dashboard timer exists.
C8_DashboardTracksNonTerminal ==
  /\ dash.mounted => DashFetched = StoredNonTerminal
  /\ StoredNonTerminal = {} => dashTimers = {}

\* the dashboard is mounted, the store holds a terminal and a non-terminal
\* job, and the timer fetches the non-terminal one
C8_Witness ==
  /\ dash.mounted
  /\ StoredNonTerminal # {}
  /\ Ids(store.projects) \ StoredNonTerminal # {}
  /\ DashFetched = StoredNonTerminal

\* the step that resumes the dashboard's interval callback for batch b
DashTickResumes(b) ==
  /\ b.kind = "batch"
  /\ AllSettled(b.results)
  /\ inflight' = Take(inflight, b)

\* C9: when a dashboard tick has fetched status completed or failed for a
\* job, the job's stored status is that status once the tick has resumed.
C9_TerminalReachesStore ==
  [][\A b \in Requests :
       (DashTickResumes(b) /\ b.live)
         => \A k \in 1..Len(b.results) :
              (b.results[k].state = "ok" /\ IsTerminal(b.results[k].data.status))
                => FindProject(store'.projects, b.projects[k].id).status
                     = b.results[k].data.status]_vars

\* C10: while one fetch of a dashboard tick is outstanding, the progress of
\* every job whose fetch in that tick has succeeded is already displayed.
C10_NoHeldResult ==
  \A b \in Requests :
    (b.kind = "batch" /\ b.live) =>
      \A k \in 1..Len(b.results) : \A m \in 1..Len(b.results) :
        (b.results[k].state = "ok" /\ b.results[m] = Sent)
          => dash.projectProgress[b.projects[k].id]
               = ProgressEntry(<<b.results[k].data>>, b.projects[k].id, FALSE)

\* the step that resumes fetchProject of the mounted view for request r
LoadResumes(r) ==
  /\ r.kind = "load"
  /\ r.live
  /\ r.resp.state = "ok"
  /\ inflight' = Take(inflight, r)

\* C11: when the initial fetch of an opened detail view returns, a timer is
\* started for the job if its status is pending or processing, and none is
\* started if it is completed or failed.
C11_TracksNonTerminalOnOpen ==
  [][\A r \in Requests :
       LoadResumes(r) =>
         IF r.resp.data.status \in {"pending", "processing"}
         THEN \E t \in timers' \ timers : t.id = r.route
         ELSE timers' = timers]_vars

\* the handles of a set of timers
Handles(ts) == {t.tid : t \in ts}

\* the step is the continuation of an explicit user action: the view was
\* opened (fetchProject resumes), Start Processing was clicked (the handler
\* resumes, or its delayed pollForUpdates fires), or Refresh was clicked
UserActionResumes ==
  \/ \E r \in Requests :
       /\ r.kind \in {"load", "start", "refresh"}
       /\ r.resp.state = "ok"
       /\ inflight' = Take(inflight, r)
  \/ \E t \in timeouts : t.kind = "poll" /\ timeouts' = timeouts \ {t}

\* C12: a timer is started only by the continuation of an explicit user
\* action (opening the view, Start Processing, Refresh); a step that handles
\* a tick response starts none, so a poller that stopped on a terminal
\* status is not restarted on its own.
C12_NoAutomaticRestart ==
  [][/\ (Handles(timers') \ Handles(timers) # {}) => UserActionResumes
     /\ \A r \in Requests :
          TickResumes(r) => Handles(timers') \subseteq Handles(timers)]_vars

\* a poller has run and stopped on a terminal status: the mounted view shows
\* the terminal status, no timer is left and nothing is outstanding
C12_Witness ==
  /\ view.mounted
  /\ IsTerminal(view.status)
  /\ nextTid > 1
  /\ timers = {}
  /\ timeouts = {}
  /\ inflight = EmptyBag

\* C13: the status displayed by the mounted detail view changes only to the
\* status carried by a fetch response that is being handled; the client
\* never sets it on its own.
C13_StatusFromRemote ==
  [][(view.mounted /\ view'.mounted /\ view'.status # view.status)
       => \E r \in Requests :
            /\ r.kind \in GetKinds
            /\ r.resp.state = "ok"
            /\ inflight' = Take(inflight, r)
            /\ view'.status = r.resp.data.status]_vars

\* C14: while the timer of a tick is running, handling a successful response
\* of that tick leaves its status displayed, in whatever order the responses
\* arrive.
C14_LastArrivalWins ==
  [][\A r \in Requests :
       (/\ TickResumes(r) /\ r.live /\ r.resp.state = "ok"
        /\ \E t \in timers : t.tid = r.tid)
         => view'.status = r.resp.data.status]_vars

\* C15: after a tick of the mounted view has handled a successful response,
\* the displayed status is the fetched one and, for a processing job whose
\* message matches the grammar, the displayed percent and step are the
\* parsed ones: a fetched value that differs from the displayed one always
\* takes effect.
C15_DifferingResultTakesEffect ==
  [][\A r \in Requests :
       (TickResumes(r) /\ r.live /\ r.resp.state = "ok")
         => LET data == r.resp.data
                m == ProgressMatch(data.status_message)
            IN  /\ view'.status = data.status
                /\ (data.status = "processing" /\ m.matched)
                     => /\ view'.progress = parseInt(m.g1)
                        /\ view'.currentStep = m.g2]_vars

\* the step text of "Progress 10%: Initializing"
Initializing == <<"I","n","i","t","i","a","l","i","z","i","n","g">>

\* tick request r belongs to a timer that was started for a job displayed as
\* pending, with no percent and no step yet
FromPending(r) ==
  /\ r.c.status \in {Null, "pending"}
  /\ r.c.progress = 0
  /\ r.c.currentStep = NoMsg

\* C16: for a timer started on a pending job, a tick that fetches processing
\* with "Progress 10%: Initializing" leaves the view at processing, 10,
\* "Initializing"; the same payload again changes nothing; a tick that
\* fetches completed leaves completed, 100 and the completion step, and its
\* timer is gone, so that it issues no further tick.
C16_EndToEnd ==
  [][\A r \in Requests :
       (TickResumes(r) /\ r.live /\ r.resp.state = "ok" /\ FromPending(r))
         => LET data == r.resp.data IN
            /\ (data.status = "processing" /\ data.status_message = MsgInit)
                 => /\ Displayed(view') = <<"processing", 10, Initializing>>
                    /\ Displayed(view) = <<"processing", 10, Initializing>>
                         => view' = view
                    /\ timers' = timers
            /\ data.status = "completed"
                 => /\ Displayed(view') = <<"completed", 100, CompletedStep>>
                    /\ r.tid \notin Handles(timers')
                    /\ timers \subseteq {t \in timers : t.tid = r.tid} => timers' = {}]_vars

\* the scenario has run to its end: one timer was ever created, the view
\* shows completed at 100, and no timer or request is left
C16_Witness ==
  /\ view.mounted
  /\ Displayed(view) = <<"completed", 100, CompletedStep>>
  /\ nextTid = 2
  /\ timers = {}
  /\ inflight = EmptyBag

WhiteSpace == {" ", "\t", "\n", "\r"}

RECURSIVE TrimLeft(_)
TrimLeft(s) ==
  IF s # << >> /\ Head(s) \in WhiteSpace THEN TrimLeft(Tail(s)) ELSE s

RECURSIVE TrimRight(_)
TrimRight(s) ==
  IF s # << >> /\ s[Len(s)] \in WhiteSpace
  THEN TrimRight(SubSeq(s, 1, Len(s) - 1)) ELSE s

Trim(s) == TrimLeft(TrimRight(s))

\* the number and the text that message m was written with
CaseOf(m) == CHOOSE c \in ParseCases : Msg(c) = m

\* the detail view shows job j after a successful load, as processing
ShowsProcessing(j) ==
  /\ view.mounted /\ view.id = j
  /\ ~view.loading /\ view.error = NoMsg
  /\ view.status = "processing"

\* C17: for a processing job whose message contains "Progress <N>%: <text>",
\* the percent held by the detail view and by the dashboard is N and the
\* step is the text without its surrounding whitespace.
C17_ParseTrimmed ==
  \A j \in Jobs :
    (remote[j].status = "processing" /\ remote[j].status_message \in GrammarMessages)
      => LET c == CaseOf(remote[j].status_message) IN
         /\ ShowsProcessing(j)
              => view.progress = c.num.n /\ view.currentStep = Trim(c.text)
         /\ (dash.mounted /\ dash.projectProgress[j].has)
              => /\ dash.projectProgress[j].progress = c.num.n
                 /\ dash.projectProgress[j].step = Trim(c.text)

\* the step that resumes, in the mounted view, a fetch of the job's state
\* that succeeded: a poll tick, the initial load, or a manual refresh
ObserveResumes(r) ==
  /\ r.kind \in {"tick", "load", "refresh"}
  /\ r.live
  /\ r.resp.state = "ok"
  /\ inflight' = Take(inflight, r)

\* C18: whenever a tick, the initial load or a manual refresh of the mounted
\* view fetches status completed, the view is left with percent 100 and the
\* completion step, whatever the message and the previous percent.
C18_CompletedShowsHundred ==
  [][\A r \in Requests :
       (ObserveResumes(r) /\ r.resp.data.status = "completed")
         => /\ view'.progress = 100
            /\ view'.currentStep = CompletedStep]_vars

\* C19: a tick of the mounted view that fetches status failed leaves the
\* percent as it was and sets the step to the status message, or to the
\* default failure string when the message is absent or empty.
C19_FailedFreezesPercent ==
  [][\A r \in Requests :
       (TickResumes(r) /\ r.live /\ r.resp.state = "ok" /\ r.resp.data.status = "failed")
         => /\ view'.progress = view.progress
            /\ view'.currentStep = IF r.resp.data.status_message # NoMsg
                                   THEN r.resp.data.status_message
                                   ELSE FailedStep]_vars

\* a tick has observed failed without a message on a job that had reached a
\* percent: the view shows failed, the percent it had, the default step
C19_Witness ==
  /\ view.mounted
  /\ view.status = "failed"
  /\ view.progress \in {7, 10}
  /\ view.currentStep = FailedStep

\* the fetched job is processing and its message does not match the grammar
NonMatch(data) ==
  /\ data.status = "processing"
  /\ data.status_message # NoMsg
  /\ ~ProgressMatch(data.status_message).matched

\* C20: when a tick, the initial load or a refresh of the mounted view
\* fetches a processing job whose message does not match the grammar, the
\* whole message becomes the step and the view holds no numeric percent,
\* neither zero nor an earlier value.
C20_NoPercentOnNonMatch ==
  [][\A r \in Requests :
       (ObserveResumes(r) /\ NonMatch(r.resp.data))
         => /\ view'.currentStep = r.resp.data.status_message
            /\ view'.progress \notin Nat]_vars

\* C21: the percent held for a job, by the detail view and by every entry of
\* the dashboard, is an integer in 0..100 whatever messages were fetched.
C21_PercentInRange ==
  /\ view.progress \in 0..100
  /\ \A j \in Jobs :
       dash.projectProgress[j].has => dash.projectProgress[j].progress \in 0..100

\* what the detail view derives from payload p of job j on a fresh view:
\* the percent and step that fetchProject leaves
DetailDerived(j, p) == ParseInto(InitialView(j), p)

\* entry e of the dashboard agrees with what the detail view derives from
\* the same payload: the same percent and step, or no percent on both sides
Consistent(e, j, p) ==
  IF e.has
  THEN /\ DetailDerived(j, p).progress = e.progress
       /\ DetailDerived(j, p).currentStep = e.step
  ELSE DetailDerived(j, p).progress = 0

\* C22: the percent and step that the dashboard derives from a fetched
\* payload, when it loads the list and when a tick resumes, are those that
\* the detail view derives from the same payload.
C22_SameParse ==
  [][/\ \A r \in Requests :
          (r.kind = "list" /\ r.live /\ r.resp.state = "ok" /\ dash.mounted
           /\ inflight' = Take(inflight, r))
            => \A k \in 1..Len(r.resp.list) :
                 Consistent(dash'.projectProgress[r.resp.list[k].id],
                            r.resp.list[k].id, r.resp.list[k])
     /\ \A b \in Requests :
          (DashTickResumes(b) /\ b.live)
            => \A k \in 1..Len(b.results) :
                 b.results[k].state = "ok"
                   => Consistent(dash'.projectProgress[b.projects[k].id],
                                 b.projects[k].id, b.results[k].data)]_vars

\* the copies of request r in flight, from a mounted or an unmounted view
Outstanding(r, infl) ==
  CopiesIn([r EXCEPT !.live = TRUE], infl) + CopiesIn([r EXCEPT !.live = FALSE], infl)

\* the step in which handleDelete resumes on a successful response r and
\* dispatches deleteProject(r.id)
DeleteResumes(r) ==
  /\ r.kind = "delete"
  /\ r.resp.state = "ok"
  /\ Outstanding(r, inflight') < Outstanding(r, inflight)

\* the entries of a projects list whose id is j
EntriesOf(ps, j) == {k \in 1..Len(ps) : ps[k].id = j}

\* C23: the step that dispatches deleteProject(id) leaves no entry with that
\* id in projects and currentProject null if it had that id; every other
\* project, and a currentProject with another id, is unchanged; when the
\* store holds nothing for the id, the store is unchanged.
C23_DeleteOnlyThatJob ==
  [][\A r \in Requests :
       DeleteResumes(r) =>
         /\ r.id \notin Ids(store'.projects)
         /\ store'.currentProject =
              IF store.currentProject.id = r.id THEN NoProject ELSE store.currentProject
         /\ \A i \in Jobs \ {r.id} :
              /\ FindProject(store'.projects, i) = FindProject(store.projects, i)
              /\ Cardinality(EntriesOf(store'.projects, i))
                   = Cardinality(EntriesOf(store.projects, i))
         /\ Len(store'.projects)
              = Len(store.projects) - Cardinality(EntriesOf(store.projects, r.id))
         /\ (r.id \notin Ids(store.projects) /\ store.currentProject.id # r.id)
              => store' = store]_vars

\* a job has been deleted and removed from a store that held it as
\* currentProject, and the list still holds the other job
C23_Witness ==
  \E j \in Jobs :
    /\ Removed(j)
    /\ j \notin Ids(store.projects)
    /\ store.currentProject = NoProject
    /\ Ids(store.projects) = Jobs \ {j}

\* C24: the projects list of the store never holds two entries with the
\* same id, in whatever order list and create responses arrive.
C24_UniqueIds ==
  \A k \in 1..Len(store.projects) : \A m \in 1..Len(store.projects) :
    store.projects[k].id = store.projects[m].id => k = m

\* the poller of the open view has run and nothing can happen any more: no
\* timer is left, no request is outstanding and the job is terminal
Quiescent ==
  /\ view.mounted
  /\ nextTid > 1
  /\ timers = {}
  /\ inflight = EmptyBag
  /\ IsTerminal(remote[1].status)

\* C25: when the poller of the open view has come to rest on a job that
\* reached a terminal status, the displayed status is that terminal status,
\* in whatever order the tick responses were delivered.
C25_PollerSettles == Quiescent => view.status = remote[1].status

\* C26: when a dashboard tick resumes in which the fetch for a job failed,
\* the job's projectProgress entry is the one it was before: neither
\* dropped nor replaced by progress parsed from an older record of the job.
C26_FailedFetchKeepsEntry ==
  [][\A b \in Requests :
       (DashTickResumes(b) /\ b.live)
         => \A k \in 1..Len(b.results) :
              b.results[k].state = "fail"
                => dash'.projectProgress[b.projects[k].id]
                     = dash.projectProgress[b.projects[k].id]]_vars

\* the step in which the mounted view handles a successful fetch result of
\* request r, issued for a job other than the one the view now shows
ForeignResumes(r) ==
  /\ r.kind \in GetKinds
  /\ r.live
  /\ r.resp.state = "ok"
  /\ view.mounted
  /\ r.id # view.id
  /\ inflight' = Take(inflight, r)

\* C27: a fetch result for a job other than the one the view shows writes
\* neither the status nor the percent nor the step of the view.
C27_OnlyOwnJobWrites ==
  [][\A r \in Requests :
       ForeignResumes(r) => Displayed(view') = Displayed(view)]_vars

\* C28: at most one dashboard poll timer is live at any time, and none
\* while the dashboard is not mounted: a change of the projects list
\* cancels the previous timer before the new one is created.
C28_OneDashboardTimer ==
  /\ Cardinality(dashTimers) <= 1
  /\ ~dash.mounted => dashTimers = {}

\* the projects list changed while a tick of the previous timer was
\* outstanding: the one live timer captures another list than that tick
C28_Witness ==
  /\ dash.mounted
  /\ \E t \in dashTimers :
       /\ dashTimers = {t}
       /\ \E b \in Requests : b.kind = "batch" /\ b.live /\ b.projects # t.projects

\* the step in which handleDelete of the mounted view resumes on a failed
\* response r, in the build that sets deleteSuccess before the request
DeleteFails(r) ==
  /\ impl = "useRef"
  /\ r.kind = "delete"
  /\ r.live
  /\ r.resp.state = "fail"
  /\ view'.mounted
  /\ CopiesIn(r, inflight') < CopiesIn(r, inflight)

\* C29: when the delete request fails, deleteSuccess is reset, the store is
\* as it was, and the view is left with the delete failure message as its
\* error.
C29_DeleteFailureShown ==
  [][\A r \in Requests :
       DeleteFails(r) =>
         /\ ~view'.deleteSuccess
         /\ store' = store
         /\ view'.error = DeleteError]_vars

\* the step in which getCurrentUser of the App effect fails
MeFails(r) ==
  /\ r.kind = "me"
  /\ r.resp.state # "ok"
  /\ r.resp # Sent
  /\ inflight' = Take(inflight, r)

\* C30: when getCurrentUser of the App effect fails, the token is removed
\* from localStorage, isAuthenticated is false, the auth state holds no
\* token and loading is false.
C30_FailedRestoreSignsOut ==
  [][\A r \in Requests :
       MeFails(r) =>
         /\ localStorage' = Null
         /\ ~auth'.isAuthenticated
         /\ auth'.token = Null
         /\ ~auth'.loading]_vars

====
